---- MODULE Spec2Model ----
(***************************************************************************)
(* Model of apps/sub.py, the launcher script of the velodyne_lidar         *)
(* workspace.  The script is a straight line of calls into the Isaac SDK   *)
(* (isaac.Message, isaac.Application).  The SDK is external: every call    *)
(* into it either returns or raises, and the model draws that outcome      *)
(* nondeterministically.  What the model keeps is what the script itself   *)
(* decides: which calls are made, in which order, with which arguments,    *)
(* and what is bound to the script's names.                                *)
(*                                                                         *)
(* pc is the line of apps/sub.py of the statement to execute next; 40 is   *)
(* the end of the file (the file has 39 lines).  Execution starts at the   *)
(* imports of lines 10-13, which run whether the file is the main program  *)
(* or is imported.                                                         *)
(***************************************************************************)
EXTENDS Integers, Sequences, FiniteSets, TLC

VARIABLES
    main,       \* __name__ == '__main__' (line 15): run as a script, or imported
    pc,         \* line of the next statement
    status,     \* "running", "in_run" (blocked inside app.run()), "raised", "exited"
    calls,      \* the calls made into the SDK so far, in order
    registry,   \* schema files given to Message.load_message_definitions
    send_msg,   \* line 22
    foo_msg,    \* line 23
    bar_msg,    \* line 24
    app,        \* line 27: the Application handle
    comp_sight, \* line 33: the component the script looked up
    config      \* the graph's component configurations, owned by the SDK

vars == <<main, pc, status, calls, registry, send_msg, foo_msg, bar_msg,
          app, comp_sight, config>>

----------------------------------------------------------------------------
(* Values.  Python values of different types are kept apart by a tag, so   *)
(* that the integer 3000 and the string "3000" differ.                     *)

Str(s) == [type |-> "str", val |-> s]
IntV(n) == [type |-> "int", val |-> n]
Builder(proto) == [type |-> "builder", val |-> proto]
NoneV == [type |-> "none", val |-> ""]

\* How many distinct values a configuration entry may hold before the script
\* touches it (what the graph files ship is not in this repository).
MaxInitVal == 1

InitVals == {NoneV} \cup {IntV(n) : n \in 1..MaxInitVal}

\* app.nodes["websight"]["WebsightServer"], line 33.
Sight == <<"websight", "WebsightServer">>

\* Stand-ins for the rest of the loaded graph: another component of the
\* websight node and a component of a node of the "sub"-prefixed subgraph.
OtherComps == {<<"websight", "other">>, <<"sub.interface", "output">>}

KeysOf(c) == IF c = Sight THEN {"webroot", "assetroot", "port", "ui_config"}
             ELSE {"port"}

\* The configurations the SDK may hold: the websight server may be missing
\* from the application, in which case the lookup of line 33 raises.
Worlds ==
    LET full(D) == {f \in [D -> UNION {[KeysOf(c) -> InitVals] : c \in D}] :
                       \A c \in D : DOMAIN f[c] = KeysOf(c)}
    IN  full(OtherComps \cup {Sight}) \cup full(OtherComps)

NoApp == [exists |-> FALSE, name |-> "", home_workspace_name |-> "",
          graphs |-> {}, modules |-> {}]

----------------------------------------------------------------------------
(* Control flow.                                                           *)

\* Variants of the control flow, each a slip the script could have made.
\* The spec's enumeration: application first, message schemas last.
Succ_AppFirst(l) ==
    CASE l = 10 -> 11
      [] l = 11 -> 12
      [] l = 12 -> 13
      [] l = 13 -> 15
      [] l = 15 -> 27
      [] l = 27 -> 28
      [] l = 28 -> 29
      [] l = 29 -> 32
      [] l = 32 -> 33
      [] l = 33 -> 34
      [] l = 34 -> 36
      [] l = 36 -> 37
      [] l = 37 -> 17
      [] l = 17 -> 19
      [] l = 19 -> 22
      [] l = 22 -> 23
      [] l = 23 -> 24
      [] l = 24 -> 39
      [] OTHER  -> 40

\* The statements of the script in file order: each line that starts a
\* statement, and the line of the statement after it.
FileOrder(l) ==
    CASE l = 10 -> 11
      [] l = 11 -> 12
      [] l = 12 -> 13
      [] l = 13 -> 15
      [] l = 15 -> 17
      [] l = 17 -> 19
      [] l = 19 -> 22
      [] l = 22 -> 23
      [] l = 23 -> 24
      [] l = 24 -> 27
      [] l = 27 -> 28
      [] l = 28 -> 29
      [] l = 29 -> 32
      [] l = 32 -> 33
      [] l = 33 -> 34
      [] l = 34 -> 36
      [] l = 36 -> 37
      [] l = 37 -> 39
      [] OTHER  -> 40

\* The port is never written.
Succ_SkipPort(l) == IF l = 36 THEN 39 ELSE FileOrder(l)

\* The script runs the application again when run() returns.
Succ_RunAgain(l) == IF l = 39 THEN 39 ELSE FileOrder(l)

\* The script ends without calling run().
Succ_SkipRun(l) == IF l = 37 THEN 40 ELSE FileOrder(l)

\* The first builder is created before apps/foo.capnp is loaded.
Succ_BuilderEarly(l) ==
    CASE l = 17 -> 22
      [] l = 22 -> 19
      [] l = 19 -> 23
      [] OTHER  -> FileOrder(l)

\* The workspace name is set after the graph and the module are loaded.
Succ_LateWorkspace(l) ==
    CASE l = 27 -> 29
      [] l = 32 -> 28
      [] l = 28 -> 33
      [] OTHER  -> FileOrder(l)

\* The statement executed after the one at line l: the script has no loop, no
\* branch but the __main__ test, and no function of its own, so it is the next
\* statement of the file.
Succ(l) == FileOrder(l)

\* Variant: the exception is swallowed and the script goes on.
Fail_Swallowed ==
    /\ pc' = Succ(pc)
    /\ status' = "running"

\* A call raised: nothing in the script catches it, so the script stops at
\* that statement.
Fail ==
    /\ pc' = pc
    /\ status' = "raised"

Call(line, op, args, result) ==
    [line |-> line, op |-> op, args |-> args, result |-> result]

\* One statement that is a call into the SDK (or a store into one of its
\* objects): it is logged, and it returns (ok) or raises.
Step(line, op, args, ok) ==
    /\ status = "running"
    /\ pc = line
    /\ calls' = Append(calls, Call(line, op, args, IF ok THEN "ok" ELSE "raised"))
    /\ IF ok THEN pc' = Succ(line) /\ status' = status ELSE Fail
    /\ UNCHANGED main

\* A use of a name that is not bound yet raises NameError.
Outcomes(bound) == IF bound THEN BOOLEAN ELSE {FALSE}

Init ==
    /\ main \in BOOLEAN
    /\ pc = 10
    /\ status = "running"
    /\ calls = <<>>
    /\ registry = {}
    /\ send_msg = NoneV
    /\ foo_msg = NoneV
    /\ bar_msg = NoneV
    /\ app = NoApp
    /\ comp_sight = <<>>
    /\ config \in Worlds

\* An import statement: the module's code is executed, which may raise
\* (ModuleNotFoundError, ImportError); nothing is called yet.
Import(line, canRaise) ==
    \E ok \in (IF canRaise THEN BOOLEAN ELSE {TRUE}) :
        /\ status = "running"
        /\ pc = line
        /\ IF ok THEN pc' = Succ(line) /\ status' = status ELSE Fail
        /\ UNCHANGED <<main, calls, registry, send_msg, foo_msg, bar_msg,
                       app, comp_sight, config>>

\* Line 10: from isaac import Application, Message.
ImportIsaac == Import(10, TRUE)

\* Line 11: import argparse.
ImportArgparse == Import(11, TRUE)

\* Line 12: import random.
ImportRandom == Import(12, TRUE)

\* Line 13: import sys (built in: always importable).
ImportSys == Import(13, FALSE)

\* Line 15: if __name__ == '__main__'.
IfMain ==
    /\ status = "running"
    /\ pc = 15
    /\ pc' = IF main THEN Succ(15) ELSE 40
    /\ UNCHANGED <<main, status, calls, registry, send_msg, foo_msg, bar_msg,
                   app, comp_sight, config>>

\* Lines 17-18: Message.load_message_definitions(".../messages/*.capnp").
LoadIsaacDefs ==
    \E ok \in BOOLEAN :
        /\ Step(17, "load_message_definitions",
                <<Str("external/com_nvidia_isaac_sdk/messages/*.capnp")>>, ok)
        /\ registry' = IF ok
                       THEN registry \cup {"external/com_nvidia_isaac_sdk/messages/*.capnp"}
                       ELSE registry
        /\ UNCHANGED <<send_msg, foo_msg, bar_msg, app, comp_sight, config>>

\* Line 19: Message.load_message_definitions("apps/foo.capnp").
LoadFooDefs ==
    \E ok \in BOOLEAN :
        /\ Step(19, "load_message_definitions", <<Str("apps/foo.capnp")>>, ok)
        /\ registry' = IF ok THEN registry \cup {"apps/foo.capnp"} ELSE registry
        /\ UNCHANGED <<send_msg, foo_msg, bar_msg, app, comp_sight, config>>

\* Line 22: send_msg = Message.create_message_builder('PingProto').
CreateSendMsg ==
    \E ok \in BOOLEAN :
        /\ Step(22, "create_message_builder", <<Str("PingProto")>>, ok)
        /\ send_msg' = IF ok THEN Builder("PingProto") ELSE send_msg
        /\ UNCHANGED <<registry, foo_msg, bar_msg, app, comp_sight, config>>

\* Line 23: foo_msg = Message.create_message_builder('FooProto').
CreateFooMsg ==
    \E ok \in BOOLEAN :
        /\ Step(23, "create_message_builder", <<Str("FooProto")>>, ok)
        /\ foo_msg' = IF ok THEN Builder("FooProto") ELSE foo_msg
        /\ UNCHANGED <<registry, send_msg, bar_msg, app, comp_sight, config>>

\* Line 24: bar_msg = Message.create_message_builder('BarProto').
CreateBarMsg ==
    \E ok \in BOOLEAN :
        /\ Step(24, "create_message_builder", <<Str("BarProto")>>, ok)
        /\ bar_msg' = IF ok THEN Builder("BarProto") ELSE bar_msg
        /\ UNCHANGED <<registry, send_msg, foo_msg, comp_sight, app, config>>

\* Line 27: app = Application(name="sub").
ConstructApp ==
    \E ok \in BOOLEAN :
        /\ Step(27, "Application", <<Str("sub")>>, ok)
        /\ app' = IF ok THEN [NoApp EXCEPT !.exists = TRUE, !.name = "sub"] ELSE app
        /\ UNCHANGED <<registry, send_msg, foo_msg, bar_msg, comp_sight, config>>

\* Line 28: app.home_workspace_name = 'velodyne'.
SetHomeWorkspace ==
    \E ok \in Outcomes(app.exists) :
        /\ Step(28, "set_home_workspace_name", <<Str("velodyne")>>, ok)
        /\ app' = IF ok THEN [app EXCEPT !.home_workspace_name = "velodyne"] ELSE app
        /\ UNCHANGED <<registry, send_msg, foo_msg, bar_msg, comp_sight, config>>

\* Lines 29-31: app.load("@com_nvidia_isaac_sdk//.../navsim_tcp.subgraph.json",
\* prefix="sub").
LoadGraph ==
    \E ok \in Outcomes(app.exists) :
        /\ Step(29, "load",
                <<Str("@com_nvidia_isaac_sdk//packages/navsim/apps/navsim_tcp.subgraph.json"),
                  Str("sub")>>, ok)
        /\ app' = IF ok
                  THEN [app EXCEPT !.graphs = @ \cup
                         {<<"@com_nvidia_isaac_sdk//packages/navsim/apps/navsim_tcp.subgraph.json",
                            "sub">>}]
                  ELSE app
        /\ UNCHANGED <<registry, send_msg, foo_msg, bar_msg, comp_sight, config>>

\* Line 32: app.load_module("@com_nvidia_isaac_sdk//packages/sight").
LoadModule ==
    \E ok \in Outcomes(app.exists) :
        /\ Step(32, "load_module", <<Str("@com_nvidia_isaac_sdk//packages/sight")>>, ok)
        /\ app' = IF ok
                  THEN [app EXCEPT !.modules = @ \cup {"@com_nvidia_isaac_sdk//packages/sight"}]
                  ELSE app
        /\ UNCHANGED <<registry, send_msg, foo_msg, bar_msg, comp_sight, config>>

\* Line 33: comp_sight = app.nodes["websight"]["WebsightServer"].  The lookup
\* raises when the application has no such node or component.
LookupSight ==
    \E ok \in {app.exists /\ Sight \in DOMAIN config} :
        /\ Step(33, "nodes", <<Str("websight"), Str("WebsightServer")>>, ok)
        /\ comp_sight' = IF ok THEN Sight ELSE comp_sight
        /\ UNCHANGED <<registry, send_msg, foo_msg, bar_msg, app, config>>

\* comp_sight.config[key] = value: a store into the component the script
\* holds, which the SDK may refuse.
ConfigSet(line, key, value) ==
    \E ok \in Outcomes(comp_sight \in DOMAIN config) :
        /\ Step(line, "config_set", <<Str(key), value>>, ok)
        /\ config' = IF ok THEN [config EXCEPT ![comp_sight][key] = value] ELSE config
        /\ UNCHANGED <<registry, send_msg, foo_msg, bar_msg, app, comp_sight>>

\* Lines 34-35.
SetWebroot ==
    ConfigSet(34, "webroot", Str("external/com_nvidia_isaac_sdk/packages/sight/webroot"))

\* Variant: the asset root lands under another key of the component.
SetAssetroot_WrongKey ==
    ConfigSet(36, "ui_config", Str("../isaac_assets"))

\* Line 36.
SetAssetroot ==
    ConfigSet(36, "assetroot", Str("../isaac_assets"))

\* Variant: the port is written as a string.
SetPort_String ==
    ConfigSet(37, "port", Str("3000"))

\* Line 37.
SetPort ==
    ConfigSet(37, "port", IntV(3000))

\* Variant: the sample message is handed to the application.
Run_WithBuilder ==
    /\ status = "running"
    /\ pc = 39
    /\ calls' = Append(calls, Call(39, "run", <<send_msg>>,
                                   IF app.exists THEN "pending" ELSE "raised"))
    /\ IF app.exists THEN pc' = pc /\ status' = "in_run" ELSE Fail
    /\ UNCHANGED <<main, registry, send_msg, foo_msg, bar_msg, app, comp_sight, config>>

\* Line 39: app.run() is entered.  The call blocks: the script does nothing
\* until it returns or raises.
Run ==
    /\ status = "running"
    /\ pc = 39
    /\ calls' = Append(calls, Call(39, "run", <<>>, IF app.exists THEN "pending" ELSE "raised"))
    /\ IF app.exists THEN pc' = pc /\ status' = "in_run" ELSE Fail
    /\ UNCHANGED <<main, registry, send_msg, foo_msg, bar_msg, app, comp_sight, config>>

\* app.run() comes back, normally or with an exception.
RunReturns ==
    \E ok \in BOOLEAN :
        /\ status = "in_run"
        /\ calls' = [calls EXCEPT ![Len(calls)].result = IF ok THEN "ok" ELSE "raised"]
        /\ IF ok THEN pc' = Succ(pc) /\ status' = "running" ELSE Fail
        /\ UNCHANGED <<main, registry, send_msg, foo_msg, bar_msg, app, comp_sight, config>>

\* The end of the file: the interpreter exits.
Exit ==
    /\ status = "running"
    /\ pc = 40
    /\ status' = "exited"
    /\ UNCHANGED <<main, pc, calls, registry, send_msg, foo_msg, bar_msg, app,
                   comp_sight, config>>

\* The statements of the script, which the interpreter executes one after
\* the other.
Statements ==
    \/ ImportIsaac
    \/ ImportArgparse
    \/ ImportRandom
    \/ ImportSys
    \/ IfMain
    \/ LoadIsaacDefs
    \/ LoadFooDefs
    \/ CreateSendMsg
    \/ CreateFooMsg
    \/ CreateBarMsg
    \/ ConstructApp
    \/ SetHomeWorkspace
    \/ LoadGraph
    \/ LoadModule
    \/ LookupSight
    \/ SetWebroot
    \/ SetAssetroot
    \/ SetPort
    \/ Run
    \/ Exit

Next ==
    \/ Statements
    \/ RunReturns

Spec == Init /\ [][Next]_vars

\* The interpreter keeps executing the script: a statement that can run does.
\* Whether app.run() ever comes back is the SDK's business: the script may
\* stay inside it for ever.
FairSpec == Spec /\ WF_vars(Statements)

----------------------------------------------------------------------------
(* What the log says.                                                      *)

Idx == DOMAIN calls

RunInvoked == \E i \in Idx : calls[i].op = "run"

NothingRaised == \A i \in Idx : calls[i].result # "raised"

Attempted(op) == \E i \in Idx : calls[i].op = op

Done(line) == \E i \in Idx : calls[i].line = line /\ calls[i].result = "ok"

IsaacDefs == "external/com_nvidia_isaac_sdk/messages/*.capnp"
GraphPath == "@com_nvidia_isaac_sdk//packages/navsim/apps/navsim_tcp.subgraph.json"
SightModule == "@com_nvidia_isaac_sdk//packages/sight"
WrittenKeys == {"webroot", "assetroot", "port"}

BuildersCreated ==
    /\ send_msg = Builder("PingProto")
    /\ foo_msg = Builder("FooProto")
    /\ bar_msg = Builder("BarProto")

ConfigWritten ==
    /\ Sight \in DOMAIN config
    /\ config[Sight]["webroot"] = Str("external/com_nvidia_isaac_sdk/packages/sight/webroot")
    /\ config[Sight]["assetroot"] = Str("../isaac_assets")
    /\ config[Sight]["port"] = IntV(3000)

\* The step of the spec's overview (section 2) a call belongs to.
Phase(op) ==
    CASE op \in {"load_message_definitions", "create_message_builder"} -> "messages"
      [] op \in {"Application", "set_home_workspace_name"} -> "construct"
      [] op \in {"load", "load_module"} -> "load"
      [] op \in {"nodes", "config_set"} -> "configure"
      [] OTHER -> "run"

\* The order in which the spec enumerates the steps, and the order of the file.
SpecRank == [construct |-> 1, load |-> 2, configure |-> 3, messages |-> 4, run |-> 5]
CodeRank == [messages |-> 1, construct |-> 2, load |-> 3, configure |-> 4, run |-> 5]

InOrder(rank) ==
    \A i, j \in Idx : i < j => rank[Phase(calls[i].op)] <= rank[Phase(calls[j].op)]

AnyMessageWork ==
    \/ registry # {}
    \/ send_msg # NoneV \/ foo_msg # NoneV \/ bar_msg # NoneV
    \/ Attempted("load_message_definitions") \/ Attempted("create_message_builder")

----------------------------------------------------------------------------
(* C1 as stated: the calls come in the order application, load, configure, *)
(* message schemas and builders, run; no message schema is loaded and no   *)
(* builder is constructed before the application handle exists and the     *)
(* node configuration has been set.                                        *)
C1_SpecOrder ==
    /\ InOrder(SpecRank)
    /\ AnyMessageWork => app.exists /\ ConfigWritten

(* C1 amended: the calls come in the order message schemas and builders,   *)
(* application (with its workspace name), load of graph and module, node   *)
(* lookup and configuration, run; the application handle is constructed    *)
(* only after both schema loads and all three builders.                    *)
C1_CodeOrder ==
    /\ InOrder(CodeRank)
    /\ Attempted("Application") =>
          /\ registry = {IsaacDefs, "apps/foo.capnp"}
          /\ BuildersCreated
    /\ RunInvoked => ConfigWritten

C1_Witness ==
    /\ RunInvoked
    /\ Len(calls) = 14
    /\ NothingRaised

(* C2: each of the keys "webroot", "assetroot", "port" is written at most  *)
(* once; when run() is invoked each has been written exactly once, the     *)
(* write succeeded, and it precedes the run() call in the log, so no write *)
(* is pending at run() and none follows it.                                *)
Writes(k) == {i \in Idx : calls[i].op = "config_set" /\ calls[i].args[1] = Str(k)}

C2_WrittenOnceBeforeRun ==
    \A k \in WrittenKeys :
        /\ Cardinality(Writes(k)) <= 1
        /\ \A r \in Idx : calls[r].op = "run" =>
              /\ Cardinality(Writes(k)) = 1
              /\ \A w \in Writes(k) : w < r /\ calls[w].result = "ok"

C2_Witness ==
    /\ status = "in_run"
    /\ \A k \in WrittenKeys : Cardinality(Writes(k)) = 1

(* C3: a call that raised is the last call the script made: the script is  *)
(* stopped at that statement, no later statement ran, no statement was     *)
(* executed twice, and unless run() itself raised, run() was not invoked.  *)
(* A script that is stopped is stopped at the call that raised, or at an   *)
(* import, before any call.                                                *)
C3_FailureStops ==
    /\ \A i \in Idx : calls[i].result = "raised" =>
          /\ i = Len(calls)
          /\ status = "raised"
          /\ pc = calls[i].line
          /\ calls[i].op # "run" => ~RunInvoked
    /\ \A i, j \in Idx : i # j => calls[i].line # calls[j].line
    /\ status = "raised" =>
          \/ pc \in {10, 11, 12} /\ calls = <<>>
          \/ calls # <<>> /\ calls[Len(calls)].result = "raised"

C3_Witness ==
    /\ status = "raised"
    /\ Len(calls) = 8
    /\ calls[Len(calls)].op = "load"

(* C4: once run() is invoked the application is named "sub" with home      *)
(* workspace "velodyne", the navsim_tcp subgraph is loaded under prefix    *)
(* "sub", the sight module is loaded, and WebsightServer has the webroot,  *)
(* the assetroot and the integer port 3000 the script gives.               *)
C4_StateAtRun ==
    RunInvoked =>
        /\ app.exists
        /\ app.name = "sub"
        /\ app.home_workspace_name = "velodyne"
        /\ <<GraphPath, "sub">> \in app.graphs
        /\ SightModule \in app.modules
        /\ comp_sight = Sight
        /\ ConfigWritten

C4_Witness ==
    /\ status = "in_run"
    /\ calls[Len(calls)].result = "pending"
    /\ ConfigWritten

(* C5: run() is invoked at most once and is the last call of the script:   *)
(* while the script is inside run(), and after run() has returned, the log *)
(* ends with that one call.                                                *)
C5_RunOnceAndLast ==
    /\ Cardinality({i \in Idx : calls[i].op = "run"}) <= 1
    /\ \A i \in Idx : calls[i].op = "run" => i = Len(calls)
    /\ status = "in_run" => pc = 39 /\ RunInvoked

C5_Witness ==
    /\ status = "exited"
    /\ RunInvoked
    /\ calls[Len(calls)].result = "ok"

(* C6: run as the main program, the script eventually invokes run() unless *)
(* a call before it raised.                                                *)
C6_ReachesRun == <>(~main \/ status = "raised" \/ RunInvoked)

C6_Witness ==
    /\ main
    /\ RunInvoked
    /\ NothingRaised
    /\ Len(calls) = 14

(* C7: no call of the script takes a message builder as an argument, each  *)
(* builder keeps the value it was created with, and the calls made on the  *)
(* application are a prefix of a sequence in which no builder occurs.      *)
AppOps == {"Application", "set_home_workspace_name", "load", "load_module",
           "nodes", "config_set", "run"}

AppCall(c) == [op |-> c.op, args |-> c.args]

AppCallsWithoutBuilders ==
    << [op |-> "Application", args |-> <<Str("sub")>>],
       [op |-> "set_home_workspace_name", args |-> <<Str("velodyne")>>],
       [op |-> "load", args |-> <<Str(GraphPath), Str("sub")>>],
       [op |-> "load_module", args |-> <<Str(SightModule)>>],
       [op |-> "nodes", args |-> <<Str("websight"), Str("WebsightServer")>>],
       [op |-> "config_set", args |->
           <<Str("webroot"), Str("external/com_nvidia_isaac_sdk/packages/sight/webroot")>>],
       [op |-> "config_set", args |-> <<Str("assetroot"), Str("../isaac_assets")>>],
       [op |-> "config_set", args |-> <<Str("port"), IntV(3000)>>],
       [op |-> "run", args |-> <<>>] >>

C7_BuildersUnused ==
    LET onApp == SelectSeq(calls, LAMBDA c : c.op \in AppOps)
    IN  /\ \A i \in Idx : \A a \in DOMAIN calls[i].args :
               calls[i].args[a].type # "builder"
        /\ Len(onApp) <= Len(AppCallsWithoutBuilders)
        /\ \A i \in DOMAIN onApp : AppCall(onApp[i]) = AppCallsWithoutBuilders[i]
        /\ Done(22) => send_msg = Builder("PingProto")
        /\ Done(23) => foo_msg = Builder("FooProto")
        /\ Done(24) => bar_msg = Builder("BarProto")

C7_Witness ==
    /\ BuildersCreated
    /\ status = "exited"
    /\ RunInvoked

(* C8: every create_message_builder call comes after both                  *)
(* load_message_definitions calls have returned, so the registry holds the *)
(* SDK's and the local definitions whenever a builder is requested.        *)
C8_LoadsBeforeBuilders ==
    \A i \in Idx : calls[i].op = "create_message_builder" =>
        /\ \E j \in 1..(i - 1) : calls[j].line = 17 /\ calls[j].result = "ok"
        /\ \E j \in 1..(i - 1) : calls[j].line = 19 /\ calls[j].result = "ok"
        /\ registry = {IsaacDefs, "apps/foo.capnp"}

C8_Witness ==
    /\ BuildersCreated
    /\ registry = {IsaacDefs, "apps/foo.capnp"}

(* C9: the home workspace name is "velodyne" from before app.load and      *)
(* app.load_module are called, and the node lookup is made only after both *)
(* have returned.                                                          *)
C9_WorkspaceThenLoadThenLookup ==
    /\ Attempted("load") \/ Attempted("load_module") =>
          /\ app.home_workspace_name = "velodyne"
          /\ \A i \in Idx : calls[i].op \in {"load", "load_module"} =>
                \E j \in 1..(i - 1) : calls[j].op = "set_home_workspace_name"
                                        /\ calls[j].result = "ok"
    /\ \A i \in Idx : calls[i].op = "nodes" =>
          /\ \E j \in 1..(i - 1) : calls[j].op = "load" /\ calls[j].result = "ok"
          /\ \E j \in 1..(i - 1) : calls[j].op = "load_module" /\ calls[j].result = "ok"
          /\ <<GraphPath, "sub">> \in app.graphs
          /\ SightModule \in app.modules

C9_Witness ==
    /\ comp_sight = Sight
    /\ app.home_workspace_name = "velodyne"
    /\ Attempted("nodes")

(* C10: no step of the script changes the configuration of a component     *)
(* other than websight/WebsightServer, nor a key of WebsightServer other   *)
(* than "webroot", "assetroot" and "port", nor the set of components.      *)
C10_ConfigFrame ==
    [][ /\ DOMAIN config' = DOMAIN config
        /\ \A c \in DOMAIN config :
              /\ DOMAIN config'[c] = DOMAIN config[c]
              /\ \A k \in DOMAIN config[c] :
                    (c # Sight \/ k \notin WrittenKeys) => config'[c][k] = config[c][k]
      ]_vars

C10_Witness ==
    /\ ConfigWritten
    /\ RunInvoked
    /\ config[Sight]["ui_config"] = IntV(1)
    /\ \A c \in OtherComps : config[c]["port"] = IntV(1)
====
